---- MODULE Spec2Model ----
(***************************************************************************)
(* Model of src/app.py: a five-node LangGraph pipeline (title_generator,   *)
(* search_web, content_generator, content_reviewer, quality_check) built   *)
(* by init_graph and run by graph.invoke from the Streamlit button handler.*)
(*                                                                         *)
(* Text is modelled as sequences of one-character strings where the code   *)
(* inspects characters (the verdict, the title, the URL) and as sequences  *)
(* of tokens (a word or one whitespace character) where it inspects words  *)
(* (is_english).                                                           *)
(*                                                                         *)
(* The graph is run the way the compiled StateGraph runs it: in supersteps.*)
(* The nodes triggered by the previous superstep run concurrently, each on *)
(* the channel values of the start of the superstep; when all have         *)
(* finished, their returned updates are applied to the channels (through   *)
(* add_messages for the annotated keys) and the edges out of the finished  *)
(* nodes trigger the next superstep. A node that raises aborts the run:    *)
(* nothing of its superstep is applied and invoke raises once the nodes    *)
(* that are still running in their threads have come to an end.            *)
(***************************************************************************)
EXTENDS Integers, Sequences, FiniteSets, TLC

\* ------------------------------------------------------------------ bounds
\* Cap on the number of times one node is started in a run.
MaxCycles == 2

\* Cap on the number of repetitions of a phrase in a text given to is_english.
MaxRep == 4

\* ---------------------------------------------------------------- strings
PASS == <<"P", "A", "S", "S">>
Pass_lit == <<"P", "a", "s", "s">>
YT == <<"y", "o", "u", "t", "u", "b", "e", ".", "c", "o", "m">>

Whitespace == {" ", "\n", "\t"}

\* str.upper() on one character
UpperChar(c) ==
  CASE c = "a" -> "A" [] c = "s" -> "S" [] c = "p" -> "P" [] c = "f" -> "F"
    [] c = "i" -> "I" [] c = "l" -> "L" [] c = "u" -> "U" [] c = "r" -> "R"
    [] OTHER -> c

\* str.lower() on one character or one word token
LowerChar(c) ==
  CASE c = "Y" -> "y" [] c = "T" -> "t" [] c = "O" -> "o" [] c = "U" -> "u"
    [] c = "B" -> "b" [] c = "E" -> "e" [] c = "C" -> "c" [] c = "M" -> "m"
    [] c = "The" -> "the" [] c = "And" -> "and"
    [] OTHER -> c

Upper(s) == [i \in 1..Len(s) |-> UpperChar(s[i])]
Lower(s) == [i \in 1..Len(s) |-> LowerChar(s[i])]

\* Python's `sub in s`
Contains(sub, s) ==
  \E i \in 1..(Len(s) - Len(sub) + 1) : SubSeq(s, i, i + Len(sub) - 1) = sub

\* str.strip(chars): drop leading and trailing characters of the set
RECURSIVE LStrip(_, _)
LStrip(s, cs) ==
  IF s # <<>> /\ Head(s) \in cs THEN LStrip(Tail(s), cs) ELSE s

RECURSIVE RStrip(_, _)
RStrip(s, cs) ==
  IF s # <<>> /\ s[Len(s)] \in cs THEN RStrip(SubSeq(s, 1, Len(s) - 1), cs) ELSE s

StripChars(s, cs) == RStrip(LStrip(s, cs), cs)
Strip(s) == StripChars(s, Whitespace)

\* s.split("\n")[0]
RECURSIVE FirstLine(_)
FirstLine(s) ==
  IF s = <<>> \/ Head(s) = "\n" THEN <<>> ELSE <<Head(s)>> \o FirstLine(Tail(s))

\* truth value of a Python string
Truthy(s) == Len(s) > 0

Min(a, b) == IF a < b THEN a ELSE b

\* ------------------------------------------------------------- is_english
common_english_words ==
  {"the", "and", "in", "to", "of", "is", "for", "with", "on", "that",
   "this", "are", "was", "be", "have", "it", "not", "they", "by", "from"}

\* number of characters of one token
TokLen(t) ==
  CASE t \in {"in", "to", "of", "is", "on", "be", "it", "by"} -> 2
    [] t \in {"the", "and", "for", "are", "was", "not", "The", "And"} -> 3
    [] t \in {"with", "that", "this", "have", "they", "from"} -> 4
    [] t = "bonjour" -> 7
    [] OTHER -> 1

RECURSIVE CharLen(_)
CharLen(s) == IF s = <<>> THEN 0 ELSE TokLen(Head(s)) + CharLen(Tail(s))

\* len(text.split()): the number of maximal runs of non-whitespace
WordCount(s) ==
  Cardinality({i \in 1..Len(s) :
                 s[i] \notin Whitespace /\ (i = 1 \/ s[i - 1] \in Whitespace)})

\* detect(text) is the external detector: det is what it answers for this
\* text, "raise" when it throws.
is_english(text, det) ==
  IF ~Truthy(text) \/ CharLen(Strip(text)) < 50 THEN FALSE
  ELSE IF det # "raise" THEN det = "en"
  ELSE LET text_lower == Lower(text)
           padded == <<" ">> \o text_lower \o <<" ">>
           english_word_count ==
             Cardinality({w \in common_english_words :
                            Contains(<<" ", w, " ">>, padded)})
           text_words == WordCount(text_lower)
       IN IF text_words = 0 THEN FALSE
          ELSE \/ english_word_count >= 5
               \* english_word_count / min(20, text_words) > 0.25
               \/ 4 * english_word_count > Min(20, text_words)

\* --------------------------------------------------------------- messages
\* A message is [id, role, content]; id 0 is "no id yet" (None).
Msg(role, content) == [id |-> 0, role |-> role, content |-> content]

NoneCount(msgs, i) == Cardinality({j \in 1..i : msgs[j].id = 0})

\* add_messages gives every message without an id a fresh one (a uuid)
AssignIds(msgs, base) ==
  [i \in 1..Len(msgs) |->
     IF msgs[i].id = 0 THEN [msgs[i] EXCEPT !.id = base + NoneCount(msgs, i)]
     ELSE msgs[i]]

\* ... and merges by id: a message whose id is already present replaces the
\* one it has the id of, any other message is appended.
MergeById(left, right) ==
  LET same(m) == {j \in 1..Len(right) : right[j].id = m.id}
      known(m) == \E i \in 1..Len(left) : left[i].id = m.id
      replaced == [i \in 1..Len(left) |->
                     IF same(left[i]) = {} THEN left[i]
                     ELSE right[CHOOSE j \in same(left[i]) :
                                  \A h \in same(left[i]) : h <= j]]
  IN replaced \o SelectSeq(right, LAMBDA m : ~known(m))

\* a reducer that concatenates (operator.add) instead of merging by id
add_messages_concat(left, right, base) ==
  AssignIds(left, base) \o AssignIds(right, base + NoneCount(left, Len(left)))

\* the reducer of search_results, blog_content and reviewed_content
add_messages(left, right, base) ==
  MergeById(AssignIds(left, base),
            AssignIds(right, base + NoneCount(left, Len(left))))

\* ----------------------------------------------------------------- inputs
\* what the user types as the topic (the handler refuses an empty one)
Topics == {"AI", "Health"}

\* what the LLM answers to the title prompt
TitleResponses ==
  { <<"\"", "A", "\"", "\n", "B">>, <<"B", "\n">>, <<>> }

\* what the LLM answers to the draft and to the critique prompt
DraftResponses == { <<"d1">>, <<"d2">> }
CritiqueResponses == { <<"c1">>, <<"c2">> }

\* what the LLM answers to the Pass/Fail prompt
VerdictResponses ==
  { <<"P", "a", "s", "s">>, <<"F", "a", "i", "l">>,
    <<" ", "p", "a", "s", "s", "\n">>, <<"F", "A", "I", "L">> }

\* what the detector answers
Detections == {"en", "fr", "raise"}

RECURSIVE Rep(_, _)
Rep(s, n) == IF n = 0 THEN <<>> ELSE s \o Rep(s, n - 1)

EnglishText == Rep(<<"The", " ", "and", " ", "in", " ", "to", " ", "of", " ">>, 3)
ForeignText == Rep(<<"bonjour", " ">>, 8)
ShortText == <<"the", " ", "and">>

\* the words, each followed by the separator
RECURSIVE Join(_, _)
Join(words, sep) ==
  IF words = <<>> THEN <<>> ELSE <<Head(words), sep>> \o Join(Tail(words), sep)

Phrases ==
  { <<"The", "and", "in", "to", "of", "is">>,
    <<"bonjour", "bonjour", "bonjour", "bonjour", "with", "that", "this", "have">>,
    <<"bonjour", "bonjour">> }

\* the texts is_english is called with on its own: empty, or a phrase
\* repeated, its words separated by spaces, newlines or tabs, with or
\* without leading blanks
Texts ==
  {<<>>} \cup
  { pad \o Rep(Join(words, sep), n) :
      words \in Phrases, sep \in Whitespace, n \in 1..MaxRep,
      pad \in {<<>>, Rep(<<" ">>, 30)} }

WebUrl == <<"x", ".", "o", "r", "g">>
VideoUrl == <<"Y", "o", "u", "T", "u", "b", "e", ".", "c", "o", "m", "/", "a">>

\* what the search tool returns: at most max_results results
RawResults ==
  { [url |-> WebUrl, title |-> <<"T">>, content |-> EnglishText],
    [url |-> VideoUrl, title |-> <<"U">>, content |-> EnglishText],
    [url |-> WebUrl, title |-> <<"V">>, content |-> ForeignText],
    [url |-> WebUrl, title |-> <<"W">>, content |-> ShortText] }

max_results == 2

RawResultLists ==
  UNION {[1..n -> RawResults] : n \in 0..max_results}

\* ------------------------------------------------------------------ graph
START == "__start__"
END == "__end__"

Nodes ==
  {"title_generator", "search_web", "content_generator", "content_reviewer",
   "quality_check"}

\* the order in which the updates of one superstep are applied
NodeOrder ==
  <<"content_generator", "content_reviewer", "quality_check", "search_web",
    "title_generator">>

\* the edges with content_reviewer wired to END instead of quality_check
Edges_skip_gate ==
  { <<START, "title_generator">>, <<START, "search_web">>,
    <<"title_generator", "content_generator">>,
    <<"search_web", "content_generator">>,
    <<"content_generator", "content_reviewer">>,
    <<"content_reviewer", END>> }

\* the edges with content_generator wired to quality_check
Edges_skip_review ==
  { <<START, "title_generator">>, <<START, "search_web">>,
    <<"title_generator", "content_generator">>,
    <<"search_web", "content_generator">>,
    <<"content_generator", "quality_check">>,
    <<"content_reviewer", "quality_check">> }

\* the edges with search_web chained after title_generator instead of START
Edges_no_fan_out ==
  { <<START, "title_generator">>, <<"title_generator", "search_web">>,
    <<"title_generator", "content_generator">>,
    <<"search_web", "content_generator">>,
    <<"content_generator", "content_reviewer">>,
    <<"content_reviewer", "quality_check">> }

\* the edges with quality_check also wired directly after content_generator
Edges_gate_beside_review ==
  { <<START, "title_generator">>, <<START, "search_web">>,
    <<"title_generator", "content_generator">>,
    <<"search_web", "content_generator">>,
    <<"content_generator", "content_reviewer">>,
    <<"content_generator", "quality_check">>,
    <<"content_reviewer", "quality_check">> }

\* the edges with content_reviewer before content_generator
Edges_review_first ==
  { <<START, "title_generator">>, <<START, "search_web">>,
    <<"title_generator", "content_reviewer">>,
    <<"search_web", "content_reviewer">>,
    <<"content_reviewer", "content_generator">>,
    <<"content_generator", "quality_check">> }

\* builder.add_edge(...)
Edges ==
  { <<START, "title_generator">>, <<START, "search_web">>,
    <<"title_generator", "content_generator">>,
    <<"search_web", "content_generator">>,
    <<"content_generator", "content_reviewer">>,
    <<"content_reviewer", "quality_check">> }

\* a path map whose retry restarts the pipeline at title_generator
PathMap_retry_title == [Pass |-> END, Fail |-> "title_generator"]

\* builder.add_conditional_edges("quality_check", route_based_on_verdict, ...)
PathMap == [Pass |-> END, Fail |-> "content_generator"]

\* a router that compares with the wrong spelling of the verdict
route_wrong_case(state) ==
  IF state.is_blog_ready = "PASS" THEN "Pass" ELSE "Fail"

route_based_on_verdict(state) ==
  IF state.is_blog_ready = "Pass" THEN "Pass" ELSE "Fail"

LastValueKeys == {"topic", "title", "is_blog_ready"}
ReducerKeys == {"search_results", "blog_content", "reviewed_content"}
AllKeys == LastValueKeys \cup ReducerKeys

\* BlogState(topic=topic, title="", search_results=[], ...)
BlogState(topic) ==
  [topic |-> topic, title |-> <<>>, search_results |-> <<>>,
   blog_content |-> <<>>, reviewed_content |-> <<>>, is_blog_ready |-> ""]

NoWrites == [keys |-> {}, val |-> BlogState("")]

\* ------------------------------------------------------------------ state
VARIABLES
  blog_state,   \* st.session_state.blog_state, the caller's record
  channels,     \* the values the graph holds for the keys of BlogState
  phase,        \* "ready", "running", "ended" (invoke returned), "aborted" (raised)
  status,       \* per node: "idle", "pending", "running", "done", "failed"
  writes,       \* per node: the update it returned in this superstep
  branch,       \* where the conditional edge of quality_check leads
  runs,         \* per node: how many times it was started
  nextId,       \* the ids handed out so far
  ui,           \* what the handler reported: "none", "success", "error"
  gateResps,    \* history: the answers quality_check received
  draftSeen,    \* history: the prompt at each start of content_generator
  titleOut,     \* history: the titles generate_title computed
  searchOut,    \* history: the evidence search_web computed, how many results
                \* it kept, and whether the tool had returned a YouTube result
                \* that is_english accepts
  finishOrder,  \* history: the nodes in the order in which they returned
  doneAtFail,   \* history: the nodes that had finished when the first node raised
  langCall      \* a call of is_english on its own: the text, the detector's
                \* answer, and what is_english returned ("none" before)

vars ==
  <<blog_state, channels, phase, status, writes, branch, runs, nextId, ui,
    gateResps, draftSeen, titleOut, searchOut, finishOrder, doneAtFail, langCall>>

history == <<gateResps, draftSeen, titleOut, searchOut, finishOrder, doneAtFail>>

Active == {n \in Nodes : status[n] # "idle"}
AnyFailed == \E n \in Nodes : status[n] = "failed"

\* the handler is at line 243, about to call graph.invoke
GraphInit ==
  /\ \E topic \in Topics : blog_state = BlogState(topic)
  /\ channels = BlogState("")
  /\ phase = "ready"
  /\ status = [n \in Nodes |-> "idle"]
  /\ writes = [n \in Nodes |-> NoWrites]
  /\ branch = END
  /\ runs = [n \in Nodes |-> 0]
  /\ nextId = 0
  /\ ui = "none"
  /\ gateResps = <<>>
  /\ draftSeen = <<>>
  /\ titleOut = <<>>
  /\ searchOut = <<>>
  /\ finishOrder = <<>>
  /\ doneAtFail = {}

NoCall == [text |-> <<>>, det |-> "en", result |-> "none"]

Init == GraphInit /\ langCall = NoCall

\* the nodes an edge leads to from the nodes of `from`
Triggered(from) ==
  {m \in Nodes : \E n \in from : <<n, m>> \in Edges}

\* graph.invoke(blog_state): the input is written to the channels and the
\* edges out of START trigger the first superstep
Invoke ==
  /\ phase = "ready"
  /\ phase' = "running"
  /\ channels' = blog_state
  /\ status' = [n \in Nodes |-> IF n \in Triggered({START}) THEN "pending" ELSE "idle"]
  /\ UNCHANGED <<langCall, blog_state, writes, branch, runs, nextId, ui, history>>

\* a prompt that also quotes the critiques so far
generate_content_prompt_with_critique(state) ==
  <<state.title, state.search_results, state.reviewed_content>>

\* the prompt of generate_content: a fixed text with state['title'] and
\* state['search_results'] inserted
generate_content_prompt(state) == <<state.title, state.search_results>>

\* a triggered node starts to run on the channel values
Start(n) ==
  /\ phase = "running"
  /\ status[n] = "pending"
  /\ runs[n] < MaxCycles
  /\ status' = [status EXCEPT ![n] = "running"]
  /\ runs' = [runs EXCEPT ![n] = @ + 1]
  /\ draftSeen' = IF n = "content_generator"
                  THEN Append(draftSeen, generate_content_prompt(channels))
                  ELSE draftSeen
  /\ UNCHANGED <<langCall, blog_state, channels, phase, writes, branch, nextId, ui,
                 gateResps, titleOut, searchOut, finishOrder, doneAtFail>>

\* the node returns `update` for the keys `keys`
Return(n, keys, update) ==
  /\ status' = [status EXCEPT ![n] = "done"]
  /\ writes' = [writes EXCEPT ![n] = [keys |-> keys, val |-> update]]
  /\ finishOrder' = Append(finishOrder, n)
  /\ UNCHANGED doneAtFail

\* the node raises
Raise(n) ==
  /\ status' = [status EXCEPT ![n] = "failed"]
  /\ doneAtFail' = IF AnyFailed THEN doneAtFail
                   ELSE {m \in Nodes : status[m] = "done"}
  /\ UNCHANGED <<writes, finishOrder>>

\* an external call (the LLM, the search tool) of a running node fails
Fail(n) ==
  /\ status[n] = "running"
  /\ Raise(n)
  /\ UNCHANGED <<langCall, blog_state, channels, phase, branch, runs, nextId, ui,
                 gateResps, draftSeen, titleOut, searchOut>>

\* ------------------------------------------------------------------ nodes
\* response.content.split("\n")[0].strip('"')
TitleOf(response) == StripChars(FirstLine(response), {"\""})

\* generate_title on a state dict it shares with search_web: what it returns
\* holds the search results search_web has put there in the meantime
TitleFinish_shared ==
  /\ status["title_generator"] = "running"
  /\ \E response \in TitleResponses :
       /\ Return("title_generator", AllKeys,
                 [channels EXCEPT
                    !.title = TitleOf(response),
                    !.search_results =
                       IF status["search_web"] = "done"
                       THEN writes["search_web"].val.search_results ELSE @])
       /\ titleOut' = Append(titleOut, TitleOf(response))
  /\ UNCHANGED <<langCall, blog_state, channels, phase, branch, runs, nextId, ui,
                 gateResps, draftSeen, searchOut>>

\* generate_title: sets state["title"] and returns the whole state
TitleFinish ==
  /\ status["title_generator"] = "running"
  /\ \E response \in TitleResponses :
       /\ Return("title_generator", AllKeys,
                 [channels EXCEPT !.title = TitleOf(response)])
       /\ titleOut' = Append(titleOut, TitleOf(response))
  /\ UNCHANGED <<langCall, blog_state, channels, phase, branch, runs, nextId, ui,
                 gateResps, draftSeen, searchOut>>

\* the loop with the URL test on the URL as given, without .lower()
RECURSIVE FilterResults_case_sensitive(_, _, _)
FilterResults_case_sensitive(search_results, det, i) ==
  IF i > Len(search_results) THEN <<>>
  ELSE LET result == search_results[i]
           content == result.content \o <<" ">> \o result.title
           keep == IF ~Contains(YT, result.url)
                   THEN is_english(content, det[i])
                   ELSE FALSE
       IN (IF keep THEN <<result>> ELSE <<>>)
            \o FilterResults_case_sensitive(search_results, det, i + 1)

\* the loop of search_web: drop YouTube results, then non-English ones
RECURSIVE FilterResults(_, _, _)
FilterResults(search_results, det, i) ==
  IF i > Len(search_results) THEN <<>>
  ELSE LET result == search_results[i]
           content == result.content \o <<" ">> \o result.title
           keep == IF ~Contains(YT, Lower(result.url))
                   THEN is_english(content, det[i])
                   ELSE FALSE
       IN (IF keep THEN <<result>> ELSE <<>>)
            \o FilterResults(search_results, det, i + 1)

\* {"role": "system", "content": f"{title}\n{content}\n(Source: {url})"}
EvidenceMsg(result) ==
  Msg("system",
      result.title \o <<"\n">> \o result.content \o <<"\n", "(Source: ">>
        \o result.url \o <<")">>)

\* search_web that reports an empty result as a message of its own
SearchFinish_placeholder ==
  /\ status["search_web"] = "running"
  /\ \E search_results \in RawResultLists :
       \E det \in [1..Len(search_results) -> Detections] :
         LET filtered_results == FilterResults(search_results, det, 1)
             evidence == IF filtered_results = <<>>
                         THEN << Msg("system", <<"No", " ", "results">>) >>
                         ELSE [i \in 1..Len(filtered_results) |->
                                 EvidenceMsg(filtered_results[i])]
         IN /\ Return("search_web", {"search_results"},
                      [channels EXCEPT !.search_results = evidence])
            /\ searchOut' =
                 Append(searchOut,
                        [evidence |-> evidence,
                         kept |-> Len(filtered_results),
                         video |-> \E i \in 1..Len(search_results) :
                                     /\ Contains(YT, Lower(search_results[i].url))
                                     /\ is_english(search_results[i].content \o <<" ">>
                                                     \o search_results[i].title, det[i])])
  /\ UNCHANGED <<langCall, blog_state, channels, phase, branch, runs, nextId, ui,
                 gateResps, draftSeen, titleOut>>

\* search_web: returns only the key search_results, the tool's results that
\* pass the filter, as system messages
SearchFinish ==
  /\ status["search_web"] = "running"
  /\ \E search_results \in RawResultLists :
       \E det \in [1..Len(search_results) -> Detections] :
         LET filtered_results == FilterResults(search_results, det, 1)
             evidence == [i \in 1..Len(filtered_results) |->
                            EvidenceMsg(filtered_results[i])]
         IN /\ Return("search_web", {"search_results"},
                      [channels EXCEPT !.search_results = evidence])
            /\ searchOut' =
                 Append(searchOut,
                        [evidence |-> evidence,
                         kept |-> Len(filtered_results),
                         video |-> \E i \in 1..Len(search_results) :
                                     /\ Contains(YT, Lower(search_results[i].url))
                                     /\ is_english(search_results[i].content \o <<" ">>
                                                     \o search_results[i].title, det[i])])
  /\ UNCHANGED <<langCall, blog_state, channels, phase, branch, runs, nextId, ui,
                 gateResps, draftSeen, titleOut>>

\* generate_content: appends the draft to state["blog_content"] and returns
\* the whole state. (The append is on the list the node was handed; the
\* reducer gives the same value whether or not that list is the one the
\* graph holds, since merging a list into itself by id changes nothing.)
DraftFinish ==
  /\ status["content_generator"] = "running"
  /\ \E response \in DraftResponses :
       Return("content_generator", AllKeys,
              [channels EXCEPT !.blog_content = Append(@, Msg("ai", response))])
  /\ UNCHANGED <<langCall, blog_state, channels, phase, branch, runs, nextId, ui,
                 gateResps, draftSeen, titleOut, searchOut>>

\* review_content: reads state["blog_content"][-1] (IndexError on an empty
\* list), appends the critique to state["reviewed_content"] and returns the
\* whole state
ReviewFinish ==
  /\ status["content_reviewer"] = "running"
  /\ IF channels.blog_content = <<>>
     THEN Raise("content_reviewer")
     ELSE \E feedback \in CritiqueResponses :
            Return("content_reviewer", AllKeys,
                   [channels EXCEPT !.reviewed_content = Append(@, Msg("ai", feedback))])
  /\ UNCHANGED <<langCall, blog_state, channels, phase, branch, runs, nextId, ui,
                 gateResps, draftSeen, titleOut, searchOut>>

\* the verdict test as a substring test: "PASS" in verdict
VerdictIsPass_substring(verdict) == Contains(PASS, verdict)

\* "PASS" or "Pass" in verdict: `in` binds tighter than `or`, and `or`
\* yields its first operand when that is true
VerdictIsPass(verdict) == Truthy(PASS) \/ Contains(Pass_lit, verdict)

VerdictMsg(response) ==
  Msg("ai", <<"V", "e", "r", "d", "i", "c", "t", ":", " ">> \o response)

\* evaluate_content: reads the last draft and the last review entry, sets
\* state["is_blog_ready"], appends the verdict entry and returns the whole
\* state; the conditional edge is then routed on the updated state
QualityFinish ==
  /\ status["quality_check"] = "running"
  /\ IF channels.blog_content = <<>> \/ channels.reviewed_content = <<>>
     THEN /\ Raise("quality_check")
          /\ UNCHANGED <<branch, gateResps>>
     ELSE \E response \in VerdictResponses :
            LET verdict == Upper(Strip(response))
                state == [channels EXCEPT
                            !.is_blog_ready =
                               IF VerdictIsPass(verdict) THEN "Pass" ELSE "Fail",
                            !.reviewed_content = Append(@, VerdictMsg(response))]
            IN /\ Return("quality_check", AllKeys, state)
               /\ branch' = PathMap[route_based_on_verdict(state)]
               /\ gateResps' = Append(gateResps, response)
  /\ UNCHANGED <<langCall, blog_state, channels, phase, runs, nextId, ui, draftSeen, titleOut,
                 searchOut>>

\* --------------------------------------------------------------- executor
Writers(k) == {n \in Nodes : status[n] = "done" /\ k \in writes[n].keys}

\* a key without a reducer takes one value per superstep
InvalidUpdate == \E k \in LastValueKeys : Cardinality(Writers(k)) > 1

LastValue(k) ==
  IF Writers(k) = {} THEN channels[k]
  ELSE writes[CHOOSE n \in Writers(k) : TRUE].val[k]

\* a key with a reducer folds the updates of the superstep into its value
RECURSIVE Reduce(_, _, _, _)
Reduce(k, value, order, base) ==
  IF order = <<>> THEN value
  ELSE LET n == Head(order)
       IN IF n \in Writers(k)
          THEN Reduce(k, add_messages(value, writes[n].val[k], base), Tail(order),
                      base + NoneCount(value, Len(value))
                           + NoneCount(writes[n].val[k], Len(writes[n].val[k])))
          ELSE Reduce(k, value, Tail(order), base)

\* the number of ids one superstep hands out
RECURSIVE FreshIds(_)
FreshIds(order) ==
  IF order = <<>> THEN 0
  ELSE LET n == Head(order)
           cnt(k) == IF n \in Writers(k)
                     THEN NoneCount(writes[n].val[k], Len(writes[n].val[k]))
                     ELSE 0
       IN cnt("search_results") + cnt("blog_content") + cnt("reviewed_content")
            + FreshIds(Tail(order))

ApplyWrites ==
  [topic |-> LastValue("topic"),
   title |-> LastValue("title"),
   is_blog_ready |-> LastValue("is_blog_ready"),
   search_results |-> Reduce("search_results", channels.search_results, NodeOrder, nextId),
   blog_content |-> Reduce("blog_content", channels.blog_content, NodeOrder, nextId),
   reviewed_content |-> Reduce("reviewed_content", channels.reviewed_content, NodeOrder, nextId)]

\* the nodes of the next superstep: those an edge out of a finished node
\* leads to, and the target of the conditional edge of quality_check
NextTasks ==
  (Triggered(Active)
     \cup (IF "quality_check" \in Active THEN {branch} ELSE {})) \ {END}

\* a superstep that counts a node that raised as finished
SuperstepDone_ignores_failure ==
  /\ Active # {}
  /\ \A n \in Active : status[n] \in {"done", "failed"}

\* every node of the superstep has returned
SuperstepDone ==
  /\ Active # {}
  /\ \A n \in Active : status[n] = "done"

\* the end of a superstep: the updates are applied, the next nodes triggered
Tick ==
  /\ phase = "running"
  /\ SuperstepDone
  /\ IF InvalidUpdate
     THEN /\ phase' = "aborted"
          /\ ui' = "error"
          /\ UNCHANGED <<channels, status, nextId>>
     ELSE /\ channels' = ApplyWrites
          /\ nextId' = nextId + FreshIds(NodeOrder)
          /\ status' = [n \in Nodes |-> IF n \in NextTasks THEN "pending" ELSE "idle"]
          /\ phase' = IF NextTasks = {} THEN "ended" ELSE "running"
          /\ ui' = ui
  /\ writes' = [n \in Nodes |-> NoWrites]
  /\ UNCHANGED <<langCall, blog_state, branch, runs, history>>

\* a node has raised and no node is running any more: invoke raises, and the
\* handler's except clause reports the error (lines 272-273)
InvokeRaises ==
  /\ phase = "running"
  /\ AnyFailed
  /\ \A n \in Nodes : status[n] # "running"
  /\ phase' = "aborted"
  /\ ui' = "error"
  /\ UNCHANGED <<langCall, blog_state, channels, status, writes, branch, runs, nextId, history>>

\* a display that leaves out the section of a list that is empty
HandlerDisplay_skips_empty ==
  /\ phase = "ended"
  /\ ui = "none"
  /\ blog_state' = channels
  /\ ui' = "success"
  /\ UNCHANGED <<langCall, channels, phase, status, writes, branch, runs, nextId,
                 history>>

\* invoke has returned: the handler keeps the final state and displays it
\* (lines 244-270); a [-1] on an empty list raises into the except clause
HandlerDisplay ==
  /\ phase = "ended"
  /\ ui = "none"
  /\ blog_state' = channels
  /\ ui' = IF \/ channels.blog_content = <<>>
              \/ channels.search_results = <<>>
              \/ channels.reviewed_content = <<>>
           THEN "error" ELSE "success"
  /\ UNCHANGED <<langCall, channels, phase, status, writes, branch, runs, nextId,
                 history>>

Next ==
  \/ Invoke
  \/ \E n \in Nodes : Start(n)
  \/ \E n \in Nodes : Fail(n)
  \/ TitleFinish
  \/ SearchFinish
  \/ DraftFinish
  \/ ReviewFinish
  \/ QualityFinish
  \/ Tick
  \/ InvokeRaises
  \/ HandlerDisplay

Spec == Init /\ [][Next]_vars

\* every started thread and the executor's loop keep making progress
FairSpec == Spec /\ WF_vars(Next)

\* ---------------------------------------------------- is_english on its own
\* is_english is called with a text; the detector answers or throws
Detect ==
  /\ langCall.result = "none"
  /\ langCall' = [langCall EXCEPT
                    !.result = IF is_english(langCall.text, langCall.det)
                               THEN "True" ELSE "False"]
  /\ UNCHANGED <<blog_state, channels, phase, status, writes, branch, runs, nextId,
                 ui, history>>

EnglishInit ==
  /\ GraphInit
  /\ \E text \in Texts : \E det \in Detections :
       langCall = [text |-> text, det |-> det, result |-> "none"]

EnglishNext == Detect

EnglishSpec == EnglishInit /\ [][EnglishNext]_vars

TypeOK ==
  /\ phase \in {"ready", "running", "ended", "aborted"}
  /\ status \in [Nodes -> {"idle", "pending", "running", "done", "failed"}]
  /\ runs \in [Nodes -> 0..MaxCycles]
  /\ ui \in {"none", "success", "error"}
  /\ channels.is_blog_ready \in {"", "Pass", "Fail"}

\* ----------------------------------------------------------------- claims
Title == "title_generator"
Search == "search_web"
Drafter == "content_generator"
Reviewer == "content_reviewer"
Gate == "quality_check"

Returned == phase = "ended"
Raised == phase = "aborted"

\* the node has been started in this superstep
Started(n) == status[n] \in {"running", "done", "failed"}

\* the runs of a node whose update has been applied to the channels
Committed(n) == runs[n] - (IF Started(n) THEN 1 ELSE 0)

\* the nodes an edge or the conditional edge leads to from n
Successors(n) ==
  Triggered({n})
    \cup (IF n = Gate THEN {PathMap[k] : k \in DOMAIN PathMap} \ {END} ELSE {})

RECURSIVE ReachableFrom(_)
ReachableFrom(S) ==
  LET T == S \cup UNION {Successors(n) : n \in S}
  IN IF T = S THEN S ELSE ReachableFrom(T)

\* C1: graph.invoke never returns a state whose verdict is not Pass: whenever
\* it has returned, is_blog_ready is "Pass" in the returned state and in the
\* record the handler keeps.
C1_ReturnsOnlyPass ==
  Returned =>
    /\ channels.is_blog_ready = "Pass"
    /\ ui # "none" => blog_state.is_blog_ready = "Pass"

C1_Witness ==
  /\ Returned
  /\ ui # "none"
  /\ blog_state.is_blog_ready = "Pass"
  /\ runs[Gate] = 1

\* C2: title_generator and search_web run once per run: neither is started
\* twice, both have run and finished once content_generator starts, the
\* retry edge leads to neither of them, and title and search_results keep,
\* from the first start of content_generator on, the value they had then.
C2_TitleAndEvidenceOnce ==
  /\ runs[Title] <= 1
  /\ runs[Search] <= 1
  /\ runs[Drafter] > 0 =>
       /\ runs[Title] = 1 /\ status[Title] = "idle"
       /\ runs[Search] = 1 /\ status[Search] = "idle"
  /\ ReachableFrom({PathMap["Fail"]}) \cap {Title, Search} = {}
  /\ \A i \in 1..Len(draftSeen) :
       /\ draftSeen[i] = draftSeen[1]
       /\ <<channels.title, channels.search_results>> = draftSeen[i]

C2_Witness ==
  /\ Returned
  /\ runs[Title] = 1
  /\ runs[Search] = 1
  /\ Len(draftSeen) = 1
  /\ draftSeen[1][1] # <<>>
  /\ Len(draftSeen[1][2]) = 2
  /\ Len(channels.reviewed_content) = 2

\* C3: a cycle appends one entry to blog_content and two to reviewed_content,
\* a critique and then a verdict entry, and nothing else is appended: the
\* lengths are the numbers of applied runs of the three nodes, and when the
\* run has returned reviewed_content is twice as long as blog_content.
C3_HistoryLengths ==
  /\ Len(channels.blog_content) = Committed(Drafter)
  /\ Len(channels.reviewed_content) = Committed(Reviewer) + Committed(Gate)
  /\ \A i \in 1..Len(channels.reviewed_content) :
       (i % 2 = 1) <=> (channels.reviewed_content[i].content \in CritiqueResponses)
  /\ Returned =>
       /\ Len(channels.reviewed_content) = 2 * Len(channels.blog_content)
       /\ Len(channels.blog_content) = runs[Drafter]
       /\ ui # "none" =>
            Len(blog_state.reviewed_content) = 2 * Len(blog_state.blog_content)

C3_Witness ==
  /\ Returned
  /\ ui # "none"
  /\ Len(blog_state.blog_content) = 1
  /\ Len(blog_state.reviewed_content) = 2
  /\ Len(blog_state.search_results) = 2

\* C4: content_reviewer runs once between a run of content_generator and the
\* next run of quality_check, after the draft was appended: the three run
\* counts never differ by more than the position in the cycle allows, the
\* reviewer runs only on a state that holds the draft of this cycle, and the
\* gate runs only when the reviewer has run for this draft.
C4_OneReviewPerDraft ==
  /\ runs[Gate] <= runs[Reviewer]
  /\ runs[Reviewer] <= runs[Drafter]
  /\ runs[Drafter] <= runs[Gate] + 1
  /\ Started(Reviewer) =>
       /\ Len(channels.blog_content) = runs[Drafter]
       /\ status[Drafter] = "idle"
       /\ runs[Reviewer] = runs[Gate] + 1
  /\ Started(Gate) =>
       /\ runs[Reviewer] = runs[Gate]
       /\ runs[Drafter] = runs[Gate]
       /\ status[Reviewer] = "idle"
       /\ status[Drafter] = "idle"
       /\ Len(channels.reviewed_content) = 2 * runs[Gate] - 1

C4_Witness ==
  /\ status[Gate] = "running"
  /\ runs[Drafter] = 1
  /\ runs[Reviewer] = 1
  /\ runs[Gate] = 1

\* C5: content_generator is neither triggered nor started before both
\* title_generator and search_web have returned and their updates were
\* applied, in whatever order the two ran, and the superstep after them
\* starts it once: before quality_check has run it has run at most once.
C5_FanIn ==
  /\ status[Drafter] # "idle" =>
       /\ runs[Title] = 1 /\ status[Title] = "idle"
       /\ runs[Search] = 1 /\ status[Search] = "idle"
       /\ Len(titleOut) = 1 /\ channels.title = titleOut[1]
  /\ runs[Drafter] <= runs[Gate] + 1
  /\ status[Title] # "idle" \/ status[Search] # "idle" => runs[Drafter] = 0

C5_Witness ==
  /\ status[Drafter] = "running"
  /\ runs[Drafter] = 1
  /\ channels.title # <<>>
  /\ Len(channels.search_results) = 1

FAIL == <<"F", "A", "I", "L">>

LastResp == gateResps[Len(gateResps)]

\* the answer says FAIL and does not say PASS
FailsOnly(response) ==
  Contains(FAIL, Upper(response)) /\ ~Contains(PASS, Upper(response))

\* C6: when evaluate_content has returned, the verdict it set is "Pass"
\* exactly if the uppercased answer of the LLM contains "PASS", and "Fail"
\* otherwise.
C6_VerdictIffPASS ==
  status[Gate] = "done" =>
    /\ writes[Gate].val.is_blog_ready \in {"Pass", "Fail"}
    /\ writes[Gate].val.is_blog_ready = "Pass" <=> Contains(PASS, Upper(LastResp))

\* C7: a run in which no node raises returns at the first answer of
\* quality_check that contains "PASS": after k answers that say FAIL only
\* and one that says PASS, content_generator has run k+1 times,
\* reviewed_content has 2(k+1) entries and the verdict is Pass.
C7_RetryUntilPass ==
  Returned =>
    \E k \in 0..(MaxCycles - 1) :
      /\ Len(gateResps) = k + 1
      /\ \A i \in 1..k : FailsOnly(gateResps[i])
      /\ Contains(PASS, Upper(gateResps[k + 1]))
      /\ runs[Drafter] = k + 1
      /\ Len(channels.reviewed_content) = 2 * (k + 1)
      /\ channels.is_blog_ready = "Pass"

C9_PartialStateOnSearchFailure ==
  (Raised /\ status[Search] = "failed") =>
    /\ runs[Drafter] = 0
    /\ blog_state.search_results = <<>>
    /\ Title \in doneAtFail => blog_state.title = titleOut[1]

\* What the code leaves instead: when search_web has raised and invoke has
\* raised, the handler has reported the error, content_generator has not
\* run, and the caller's record is the one it passed in, with no search
\* results and an empty title, whether or not generate_title had returned;
\* the graph's own title and search_results are empty too.
InitialStateOnSearchFailure ==
  (Raised /\ status[Search] = "failed") =>
    /\ ui = "error"
    /\ runs[Drafter] = 0
    /\ blog_state = BlogState(blog_state.topic)
    /\ channels.title = <<>>
    /\ channels.search_results = <<>>

SearchFailureAfterTitle ==
  /\ Raised
  /\ status[Search] = "failed"
  /\ Title \in doneAtFail
  /\ titleOut = << <<"A">> >>
  /\ blog_state.title = <<>>

\* C10: under fair scheduling a run in which no node raises reaches END, and
\* once invoke has returned no node is started or changes its status.
C10_Terminates ==
  /\ ([]~AnyFailed) => <>Returned
  /\ [][Returned => (Returned' /\ runs' = runs /\ status' = status
                       /\ channels' = channels)]_vars

C10_Witness ==
  /\ Returned
  /\ ~AnyFailed
  /\ \A n \in Nodes : status[n] = "idle" /\ runs[n] = 1
  /\ FailsOnly(gateResps[1])

\* C11: a run in which no node raises and every answer of quality_check so
\* far says FAIL only has neither returned nor aborted: it is still running
\* (and so goes on to the next draft, without a limit on the cycles).
C11_FailNeverEnds ==
  (gateResps # <<>> /\ ~AnyFailed /\ \A i \in 1..Len(gateResps) : FailsOnly(gateResps[i]))
    => phase = "running"

\* C12: the verdict expression of evaluate_content is true for every answer,
\* also for one that says FAIL only: whenever quality_check has returned it
\* has set is_blog_ready to "Pass" and its conditional edge leads to END,
\* the verdict the graph holds after a run of quality_check is "Pass", and
\* content_generator is never triggered or started a second time.
C12_AlwaysPass ==
  /\ \A response \in VerdictResponses : VerdictIsPass(Upper(Strip(response)))
  /\ status[Gate] = "done" =>
       /\ writes[Gate].val.is_blog_ready = "Pass"
       /\ branch = END
  /\ Committed(Gate) > 0 => channels.is_blog_ready = "Pass"
  /\ runs[Gate] > 0 => status[Drafter] = "idle"
  /\ runs[Drafter] <= 1

C12_Witness ==
  /\ status[Gate] = "done"
  /\ FailsOnly(LastResp)
  /\ ~Contains(PASS, Upper(Strip(LastResp)))
  /\ writes[Gate].val.is_blog_ready = "Pass"

\* the first superstep has been applied: both fan-out nodes have returned
FanOutApplied == Committed(Title) = 1 /\ Committed(Search) = 1

\* C13: the state after title_generator and search_web is the same in
\* whatever order the two started and returned: it is the input with the
\* title generate_title computed and the evidence search_web computed, and
\* nothing else. What generate_title returns differs from what it was given
\* in title only, and search_web returns search_results only.
C13_FanOutOrderIndependent ==
  /\ status[Title] = "done" =>
       \A k \in AllKeys \ {"title"} : writes[Title].val[k] = channels[k]
  /\ status[Search] = "done" => writes[Search].keys = {"search_results"}
  /\ FanOutApplied =>
       /\ channels.title = titleOut[1]
       /\ channels.search_results = AssignIds(searchOut[1].evidence, 0)
       /\ channels.topic \in Topics
       /\ ui = "none" => channels.topic = blog_state.topic
       /\ runs[Drafter] = 0 =>
            channels = [BlogState(channels.topic) EXCEPT
                          !.title = titleOut[1],
                          !.search_results = AssignIds(searchOut[1].evidence, 0)]

C13_Witness ==
  /\ FanOutApplied
  /\ status[Drafter] = "pending"
  /\ finishOrder = <<Search, Title>>
  /\ channels.title = <<"A">>
  /\ Len(channels.search_results) = 2

\* the same state is reached when title_generator returns first
C13_WitnessTitleFirst ==
  /\ FanOutApplied
  /\ status[Drafter] = "pending"
  /\ finishOrder = <<Title, Search>>
  /\ channels.title = <<"A">>
  /\ Len(channels.search_results) = 2

\* the nodes that are running now
Running == {n \in Nodes : status[n] = "running"}

\* C14: two nodes run at the same time only if they are title_generator and
\* search_web: content_generator, content_reviewer and quality_check run
\* alone, also among the nodes triggered for one superstep; and no node is
\* started while it is running: a start takes a triggered node that is not
\* running and is its only new run.
C14_OnlyFanOutConcurrent ==
  /\ [](/\ Running \subseteq {Title, Search} \/ Cardinality(Running) <= 1
        /\ Active \subseteq {Title, Search} \/ Cardinality(Active) <= 1)
  /\ [][\A n \in Nodes :
          runs'[n] # runs[n] =>
            /\ status[n] = "pending"
            /\ status'[n] = "running"
            /\ runs'[n] = runs[n] + 1]_vars

C14_Witness ==
  /\ Running = {Title, Search}
  /\ runs[Title] = 1
  /\ runs[Search] = 1

IsVideo(result) == Contains(YT, Lower(result.url))

Range(seq) == {seq[i] : i \in 1..Len(seq)}

\* C15: a result whose URL contains "youtube.com" in any letter case is not
\* among the search results, whatever is_english answers for it: no evidence
\* the graph holds or search_web returned names such a URL, and for every
\* list the search tool can return the filtered list holds no such result
\* and does not depend on what the detector answers for such a result.
C15_VideoAlwaysExcluded ==
  /\ \A i \in 1..Len(channels.search_results) :
       ~Contains(YT, Lower(channels.search_results[i].content))
  /\ \A j \in 1..Len(searchOut) : \A i \in 1..Len(searchOut[j].evidence) :
       ~Contains(YT, Lower(searchOut[j].evidence[i].content))
  /\ phase = "ready" =>
       \A search_results \in RawResultLists :
         \A det \in [1..Len(search_results) -> Detections] :
           \A i \in 1..Len(search_results) :
             IsVideo(search_results[i]) =>
               /\ search_results[i] \notin Range(FilterResults(search_results, det, 1))
               /\ \A d \in Detections :
                    FilterResults(search_results, [det EXCEPT ![i] = d], 1)
                      = FilterResults(search_results, det, 1)

C15_Witness ==
  /\ FanOutApplied
  /\ searchOut[1].video
  /\ Len(channels.search_results) = 1
  /\ ~Contains(YT, Lower(channels.search_results[1].content))

\* search_web has returned and had kept none of the tool's results
NoEvidence == searchOut # <<>> /\ searchOut[1].kept = 0

\* C16: when the search tool returns nothing, or search_web keeps none of
\* its results, search_web returns, search_results is and stays empty,
\* content_generator is triggered once the title is there, and unless a node
\* raises content_generator, content_reviewer and quality_check all run.
C16_NoEvidenceStillRuns ==
  /\ [](NoEvidence =>
          /\ status[Search] \in {"done", "idle"}
          /\ status[Search] = "done" => writes[Search].val.search_results = <<>>
          /\ channels.search_results = <<>>
          /\ (FanOutApplied /\ runs[Drafter] = 0) => status[Drafter] = "pending")
  /\ NoEvidence ~>
       (AnyFailed \/ (runs[Drafter] > 0 /\ runs[Reviewer] > 0 /\ runs[Gate] > 0))

C16_Witness ==
  /\ NoEvidence
  /\ searchOut[1].video
  /\ Returned
  /\ channels.search_results = <<>>
  /\ Len(channels.blog_content) = 1
  /\ Len(channels.reviewed_content) = 2
  /\ channels.is_blog_ready = "Pass"

\* the stopwords that occur in the text as whole words: a word is a maximal
\* run of tokens that are not whitespace
WholeWords(text) ==
  {w \in common_english_words :
     \E i \in 1..Len(text) :
       /\ text[i] = w
       /\ i = 1 \/ text[i - 1] \in Whitespace
       /\ i = Len(text) \/ text[i + 1] \in Whitespace}

is_english_reference(text, det) ==
  IF text = <<>> \/ CharLen(Strip(text)) < 50 THEN FALSE
  ELSE IF det # "raise" THEN det = "en"
  ELSE LET matchCount == Cardinality(WholeWords(Lower(text)))
           wordCount == WordCount(Lower(text))
       IN IF wordCount = 0 THEN FALSE
          ELSE matchCount >= 5 \/ 4 * matchCount > Min(20, wordCount)

\* C17: is_english answers as the reference does: False for an empty text
\* or one whose stripped length is below 50; else what the detector says;
\* and when the detector throws, True exactly if at least 5 stopwords occur
\* as whole words in the lowercased text or their number is more than a
\* quarter of min(20, number of words).
C17_MatchesReference ==
  langCall.result # "none" =>
    (langCall.result = "True" <=> is_english_reference(langCall.text, langCall.det))

\* is_english and the reference agree on the texts whose words are separated
\* by spaces only
SpaceSeparated(text) == \A i \in 1..Len(text) : text[i] \notin (Whitespace \ {" "})

SpacedTextMatchesReference ==
  (langCall.result # "none" /\ SpaceSeparated(langCall.text)) =>
    (langCall.result = "True" <=> is_english_reference(langCall.text, langCall.det))

NewlineTextRejected ==
  /\ langCall.det = "raise"
  /\ langCall.text = Rep(Join(<<"The", "and", "in", "to", "of", "is">>, "\n"), 3)
  /\ langCall.result = "False"
  /\ is_english_reference(langCall.text, langCall.det)

\* C18: the prompt of content_generator is a function of title and
\* search_results alone: replacing blog_content, reviewed_content and
\* is_blog_ready in the state leaves the prompt as it is, and as long as
\* title and search_results are what content_generator was started with, the
\* prompt it would build from the state the graph holds, whatever drafts,
\* critiques and verdict that state has by then, is the prompt it built.
C18_PromptIgnoresHistory ==
  /\ \A drafts, critiques \in {<<>>, << Msg("ai", <<"D">>) >>} :
       \A verdict \in {"", "Pass", "Fail"} :
         generate_content_prompt([channels EXCEPT !.blog_content = drafts,
                                                  !.reviewed_content = critiques,
                                                  !.is_blog_ready = verdict])
           = generate_content_prompt(channels)
  /\ \A i \in 1..Len(draftSeen) :
       (draftSeen[i][1] = channels.title /\ draftSeen[i][2] = channels.search_results)
         => generate_content_prompt(channels) = draftSeen[i]

C18_Witness ==
  /\ Returned
  /\ Len(draftSeen) = 1
  /\ Len(channels.blog_content) = 1
  /\ Len(channels.reviewed_content) = 2
  /\ channels.is_blog_ready = "Pass"
  /\ channels.search_results # <<>>
  /\ generate_content_prompt(channels) = draftSeen[1]

Last(seq) == seq[Len(seq)]

\* C19: content_reviewer is never started on an empty blog_content and
\* quality_check never on an empty blog_content or reviewed_content, so
\* neither raises on its [-1]; and the last entry of reviewed_content that
\* quality_check reads is a critique, the one content_reviewer wrote for the
\* last draft: there is one review per draft and one verdict entry per
\* earlier cycle.
C19_LastReadsDefined ==
  /\ Started(Reviewer) => channels.blog_content # <<>>
  /\ Started(Gate) =>
       /\ channels.blog_content # <<>>
       /\ channels.reviewed_content # <<>>
       /\ Last(channels.reviewed_content).content \in CritiqueResponses
       /\ Last(channels.blog_content).content \in DraftResponses
       /\ Committed(Reviewer) = Len(channels.blog_content)
       /\ Committed(Drafter) = Len(channels.blog_content)
       /\ Len(channels.reviewed_content) = 2 * Len(channels.blog_content) - 1
  /\ status[Reviewer] = "done" =>
       /\ Len(writes[Reviewer].val.blog_content) = Len(channels.blog_content)
       /\ Last(writes[Reviewer].val.reviewed_content).content \in CritiqueResponses

C19_Witness ==
  /\ status[Gate] = "running"
  /\ Last(channels.reviewed_content).content = <<"c2">>
  /\ Last(channels.blog_content).content = <<"d1">>
  /\ Len(channels.reviewed_content) = 1

\* C20: when invoke has returned with an empty search_results, the display
\* raises on final_state["search_results"][-1] and the handler reports an
\* error, although the record it has kept by then is the complete final
\* state: a title, a draft, the critique and the verdict entry, verdict Pass.
C20_EmptyEvidenceReportedAsError ==
  /\ (Returned /\ ui # "none" /\ channels.search_results = <<>>) =>
       /\ ui = "error"
       /\ blog_state = channels
       /\ blog_state.is_blog_ready = "Pass"
       /\ blog_state.title = titleOut[1]
       /\ Len(blog_state.blog_content) = 1
       /\ Len(blog_state.reviewed_content) = 2
  /\ (Returned /\ ui = "success") => channels.search_results # <<>>

C20_Witness ==
  /\ Returned
  /\ NoEvidence
  /\ ui = "error"
  /\ ~AnyFailed
  /\ blog_state.search_results = <<>>
  /\ blog_state.is_blog_ready = "Pass"
  /\ Last(blog_state.blog_content).content = <<"d1">>

====
